---- MODULE Spec2Model ----
(***************************************************************************)
(* A model of etl.py: the batch job that reads a song catalog and a user   *)
(* activity log and writes the five tables songs, artists, users, time and *)
(* songplays.  Every Spark action of the job (a parquet write together     *)
(* with the lazy lineage it evaluates) is one step of the state machine.   *)
(* What Spark leaves to the engine (the row chosen among equal keys of a   *)
(* window or of a sort, the split of a sorted frame into partitions) is a  *)
(* nondeterministic choice.                                                *)
(***************************************************************************)
EXTENDS Integers, Sequences, FiniteSets, TLC

VARIABLES
    log_files,    \* the log records under input_data/log_data (one per line)
    song_files,   \* the catalog records under input_data/song_data
    pc,           \* the statement of main that runs next
    store,        \* the output root: for each table, whether it exists and its rows
    written,      \* the tables the current run of main has written, in order
    events,       \* the temp view 'events': the sorted frame with its songplay_id
    error,        \* the exception that ended the current run, if any
    rerun,        \* TRUE once main has been invoked a second time
    prev_users    \* the users table of the previous run, kept when the root is cleared

vars == <<log_files, song_files, pc, store, written, events, error, rerun, prev_users>>

----------------------------------------------------------------------------
(* Bounds of the model *)

MaxEvents == 2

----------------------------------------------------------------------------
(* SQL NULL and nullable columns: NULL, or Some(v) for a value v *)

NULL == <<>>
Some(v) == <<v>>

(* The rows of a set of files, in the one order the engine reads them *)
RECURSIVE SetToSeq(_)
SetToSeq(S) ==
    IF S = {} THEN <<>>
    ELSE LET x == CHOOSE y \in S : TRUE IN <<x>> \o SetToSeq(S \ {x})

RECURSIVE Flatten(_)
Flatten(ss) == IF ss = <<>> THEN <<>> ELSE Head(ss) \o Flatten(Tail(ss))

Range(s) == {s[i] : i \in DOMAIN s}

----------------------------------------------------------------------------
(* The input snapshot *)

UserIds == {"7", "8", ""}
Levels == {"free", "paid"}
Pages == {"NextSong", "PageView"}
Timestamps == {1000, 2000}
Lengths == {211, 214}

FirstNameOf(u) == CASE u = "7" -> "Ann" [] u = "8" -> "Bob" [] OTHER -> ""
LastNameOf(u) == CASE u = "7" -> "Lee" [] u = "8" -> "Ray" [] OTHER -> ""
GenderOf(u) == CASE u = "7" -> "F" [] u = "8" -> "M" [] OTHER -> ""

(* User 7 changes level over time, the other users stay on the free level *)
LevelsOf(u) == IF u = "7" THEN Levels ELSE {"free"}

(* A song play names its song; any other page carries no song *)
LogRecord(u, l, t, p, title, artist, n) ==
    [userId |-> u, firstName |-> FirstNameOf(u), lastName |-> LastNameOf(u),
     gender |-> GenderOf(u), level |-> l, ts |-> t, page |-> p,
     song |-> title, artist |-> artist, length |-> n,
     sessionId |-> 1, location |-> "SF", userAgent |-> "UA"]

LogRecords ==
    UNION {
        {LogRecord(u, l, t, "NextSong", "Song A", "Artist A", n) :
            l \in LevelsOf(u), t \in Timestamps, n \in Lengths}
        \cup
        {LogRecord(u, l, t, p, "", "", 0) :
            l \in LevelsOf(u), t \in Timestamps, p \in Pages \ {"NextSong"}}
        : u \in UserIds}

CatalogRecords ==
    {[song_id |-> "S1", title |-> "Song A", artist_id |-> "AR1",
      artist_name |-> "Artist A", artist_location |-> "LA",
      artist_latitude |-> 34, artist_longitude |-> 118,
      year |-> 2000, duration |-> 211],
     [song_id |-> "S2", title |-> "Song A", artist_id |-> "AR1",
      artist_name |-> "Artist A", artist_location |-> "LA",
      artist_latitude |-> 34, artist_longitude |-> 118,
      year |-> 2001, duration |-> 212],
     [song_id |-> "S3", title |-> "Song B", artist_id |-> "AR2",
      artist_name |-> "Artist A", artist_location |-> "NY",
      artist_latitude |-> 40, artist_longitude |-> 74,
      year |-> 2000, duration |-> 213]}

(* The sets of at most k elements of S *)
RECURSIVE SubsetsUpTo(_, _)
SubsetsUpTo(S, k) ==
    IF k = 0 THEN {{}}
    ELSE LET smaller == SubsetsUpTo(S, k - 1)
         IN  smaller \cup {T \cup {x} : T \in smaller, x \in S}

Tables == {"songs", "artists", "users", "time", "songplays"}

NoTable == [exists |-> FALSE, rows |-> <<>>]

----------------------------------------------------------------------------
(* process_song_data *)

(* spark.read.json(song_data) *)
ReadSongData == SetToSeq(song_files)

(* df.select(['song_id', 'title', 'artist_id', 'year', 'duration']) *)
SongsTable(df) ==
    [i \in 1..Len(df) |->
        [song_id |-> df[i].song_id, title |-> df[i].title,
         artist_id |-> df[i].artist_id, year |-> df[i].year,
         duration |-> df[i].duration]]

(* df.selectExpr('artist_id', 'artist_name as name', ...) *)
ArtistsTable(df) ==
    [i \in 1..Len(df) |->
        [artist_id |-> df[i].artist_id, name |-> df[i].artist_name,
         location |-> df[i].artist_location,
         latitude |-> df[i].artist_latitude,
         longitude |-> df[i].artist_longitude]]

----------------------------------------------------------------------------
(* process_log_data: the frame df *)

(* userId.cast(IntegerType()): the integer a numeric string denotes, NULL for
   any other string *)
CastInteger(s) ==
    CASE s = "7" -> Some(7)
      [] s = "8" -> Some(8)
      [] OTHER -> NULL

(* spark.read.json(log_data) and withColumn('user_id', ...) *)
ReadLogData ==
    LET raw == SetToSeq(log_files)
    IN  [i \in 1..Len(raw) |->
            [userId |-> raw[i].userId, user_id |-> CastInteger(raw[i].userId),
             firstName |-> raw[i].firstName, lastName |-> raw[i].lastName,
             gender |-> raw[i].gender, level |-> raw[i].level,
             ts |-> raw[i].ts, page |-> raw[i].page, song |-> raw[i].song,
             artist |-> raw[i].artist, length |-> raw[i].length,
             sessionId |-> raw[i].sessionId, location |-> raw[i].location,
             userAgent |-> raw[i].userAgent]]

(* df.where(df.page == 'NextSong') *)
IsSongPlay(r) == r.page = "NextSong"

(* The frame without the filter on page *)
KeepEveryPage(df) == df

(* df.where(...) keeps the rows the predicate is true of *)
FilterNextSong(df) == SelectSeq(df, IsSongPlay)

LogDf == FilterNextSong(ReadLogData)

----------------------------------------------------------------------------
(* process_log_data: the users table *)

(* selectExpr(['user_id', 'firstName as first_name', ...]) then drop('ts',
   'row_number') *)
UserRecord(r) ==
    [user_id |-> r.user_id, first_name |-> r.firstName,
     last_name |-> r.lastName, gender |-> r.gender, level |-> r.level]

(* Window.partitionBy('user_id') *)
UserPartition(df, u) == {i \in 1..Len(df) : df[i].user_id = u}

(* The window ordered by ts ascending: the oldest row of the partition first *)
OldestInWindow(df, u) ==
    {i \in UserPartition(df, u) :
        \A j \in UserPartition(df, u) : df[i].ts <= df[j].ts}

(* orderBy(col('ts').desc()) and row_number == 1: the rows of partition u that
   the descending order may put first, one of which gets row_number 1; rows
   with equal ts are in the order the engine met them *)
FirstInWindow(df, u) ==
    {i \in UserPartition(df, u) :
        \A j \in UserPartition(df, u) : df[j].ts <= df[i].ts}

(* every assignment of row_number 1 the window admits *)
UsersWindowChoices(df) ==
    LET keys == {df[i].user_id : i \in 1..Len(df)}
    IN  {f \in [keys -> 1..Len(df)] : \A u \in keys : f[u] \in FirstInWindow(df, u)}

UsersTable(df, f) ==
    LET keys == SetToSeq(DOMAIN f)
    IN  [k \in 1..Len(keys) |-> UserRecord(df[f[keys[k]]])]

----------------------------------------------------------------------------
(* process_log_data: the time table.  The timestamps of the model lie in the
   first days of January 1970, in a zone without offset. *)

(* datetime.fromtimestamp(ts/1000).isoformat() cast to TimestampType *)
get_timestamp(ts) == [seconds |-> ts \div 1000, millis |-> ts % 1000]

hour(t) == (t.seconds \div 3600) % 24
dayofmonth(t) == 1 + (t.seconds \div 86400)
weekofyear(t) == 1 + (((t.seconds \div 86400) + 3) \div 7)
month(t) == 1
year(t) == 1970
dayofweek(t) == 1 + (((t.seconds \div 86400) + 4) % 7)

TimeRow(r) ==
    LET t == get_timestamp(r.ts)
    IN  [start_time |-> t, hour |-> hour(t), day |-> dayofmonth(t),
         week |-> weekofyear(t), month |-> month(t), year |-> year(t),
         weekday |-> dayofweek(t)]

TimeTable(df) == [i \in 1..Len(df) |-> TimeRow(df[i])]

----------------------------------------------------------------------------
(* process_log_data: the songplays table *)

(* The frame left in any order the engine read it in, without the sort *)
AnyOrder(df) ==
    LET n == Len(df)
        perms == {p \in [1..n -> 1..n] : \A i, j \in 1..n : i # j => p[i] # p[j]}
    IN  {[k \in 1..n |-> df[p[k]]] : p \in perms}

(* df.orderBy('ts'): every order of the rows that is ascending in ts; rows
   with equal ts come in the order the engine leaves them *)
OrderByTs(df) ==
    LET n == Len(df)
        perms == {p \in [1..n -> 1..n] : \A i, j \in 1..n : i # j => p[i] # p[j]}
    IN  {[k \in 1..n |-> df[p[k]]] :
            p \in {q \in perms : \A i, j \in 1..n : i < j => df[q[i]].ts <= df[q[j]].ts}}

(* The partitions of a sorted frame of n rows: the set of positions after which
   a new partition starts (range partitioning keeps the partitions in order) *)
Partitionings(n) == SUBSET (1..(n - 1))

(* The stride between the ids of consecutive partitions.  Spark uses 2^33; the
   model uses the least stride above the row count of any partition. *)
PartitionStride == MaxEvents + 2

(* monotonically_increasing_id() for the row at position k: the partition index
   in the upper bits, the row's index inside its partition in the lower bits *)
MonotonicallyIncreasingId(k, cuts) ==
    LET before == {c \in cuts : c < k}
        start == IF before = {} THEN 0 ELSE CHOOSE c \in before : \A d \in before : d <= c
    IN  Cardinality(before) * PartitionStride + (k - start - 1)

(* df.withColumn('start_time', ...), df.orderBy('ts'),
   df.withColumn('songplay_id', monotonically_increasing_id()) *)
EventsView(sorted, cuts) ==
    [k \in 1..Len(sorted) |->
        [songplay_id |-> MonotonicallyIncreasingId(k, cuts),
         start_time |-> get_timestamp(sorted[k].ts),
         user_id |-> sorted[k].user_id, level |-> sorted[k].level,
         ts |-> sorted[k].ts, song |-> sorted[k].song,
         artist |-> sorted[k].artist, length |-> sorted[k].length,
         sessionId |-> sorted[k].sessionId, location |-> sorted[k].location,
         userAgent |-> sorted[k].userAgent]]

(* ABS(x) *)
ABS(x) == IF x < 0 THEN 0 - x ELSE x

(* The tolerance of the join on the duration, in seconds *)
DurationTolerance == 2

(* The join with the tolerance included: a difference of exactly 2 matches *)
JoinConditionInclusive(e, s) ==
    /\ e.song = s.title
    /\ e.artist = s.artist_name
    /\ ABS(e.length - s.duration) <= DurationTolerance

(* ON e.song = s.title AND e.artist = s.artist_name AND
   ABS(e.length - s.duration) < 2 *)
JoinCondition(e, s) ==
    /\ e.song = s.title
    /\ e.artist = s.artist_name
    /\ ABS(e.length - s.duration) < DurationTolerance

(* The SELECT list *)
SongPlayFact(e, song_id, artist_id) ==
    [songplay_id |-> e.songplay_id, start_time |-> e.start_time,
     user_id |-> e.user_id, level |-> e.level,
     song_id |-> song_id, artist_id |-> artist_id,
     session_id |-> e.sessionId, location |-> e.location,
     user_agent |-> e.userAgent,
     year |-> year(e.start_time), month |-> month(e.start_time)]

(* FROM events e LEFT JOIN songs s ON ...: one row for each catalog row the
   event joins with, one row with NULLs for an event that joins with none *)
LeftJoinRows(e, song_df) ==
    LET matching(s) == JoinCondition(e, s)
        matches == SelectSeq(song_df, matching)
    IN  IF matches = <<>>
        THEN <<SongPlayFact(e, NULL, NULL)>>
        ELSE [m \in 1..Len(matches) |->
                SongPlayFact(e, Some(matches[m].song_id), Some(matches[m].artist_id))]

SongplaysTable(ev, song_df) ==
    Flatten([k \in 1..Len(ev) |-> LeftJoinRows(ev[k], song_df)])

----------------------------------------------------------------------------
(* The state machine of main *)

(* DataFrameWriter.parquet(path) with the default save mode: the write raises
   when the path exists, and creates the table otherwise *)
PathExists(t) == store[t].exists

(* main without the second write of process_song_data *)
AfterWriteSkippingArtists(t) ==
    CASE t = "songs" -> "users"
      [] t = "artists" -> "users"
      [] t = "users" -> "time"
      [] t = "time" -> "songplays"
      [] t = "songplays" -> "stop"

(* the statement of main that follows the write of table t *)
AfterWrite(t) ==
    CASE t = "songs" -> "artists"
      [] t = "artists" -> "users"
      [] t = "users" -> "time"
      [] t = "time" -> "songplays"
      [] t = "songplays" -> "stop"

WriteParquet(t, rows) ==
    IF PathExists(t)
    THEN /\ pc' = "failed"
         /\ error' = "AnalysisException"
         /\ UNCHANGED <<store, written>>
    ELSE /\ store' = [store EXCEPT ![t] = [exists |-> TRUE, rows |-> rows]]
         /\ written' = Append(written, t)
         /\ pc' = AfterWrite(t)
         /\ error' = error

Init ==
    /\ log_files \in SubsetsUpTo(LogRecords, MaxEvents)
    /\ song_files \in SUBSET CatalogRecords
    /\ pc = "songs"
    /\ store = [t \in Tables |-> NoTable]
    /\ written = <<>>
    /\ events = <<>>
    /\ error = "none"
    /\ rerun = FALSE
    /\ prev_users = NoTable

WriteSongs ==
    /\ pc = "songs"
    /\ WriteParquet("songs", SongsTable(ReadSongData))
    /\ UNCHANGED <<log_files, song_files, events, rerun, prev_users>>

WriteArtists ==
    /\ pc = "artists"
    /\ WriteParquet("artists", ArtistsTable(ReadSongData))
    /\ UNCHANGED <<log_files, song_files, events, rerun, prev_users>>

WriteUsers ==
    /\ pc = "users"
    /\ \E f \in UsersWindowChoices(LogDf) :
          WriteParquet("users", UsersTable(LogDf, f))
    /\ UNCHANGED <<log_files, song_files, events, rerun, prev_users>>

WriteTime ==
    /\ pc = "time"
    /\ WriteParquet("time", TimeTable(LogDf))
    /\ UNCHANGED <<log_files, song_files, events, rerun, prev_users>>

WriteSongplays ==
    /\ pc = "songplays"
    /\ \E sorted \in OrderByTs(LogDf) :
       \E cuts \in Partitionings(Len(sorted)) :
          /\ events' = EventsView(sorted, cuts)
          /\ WriteParquet("songplays", SongplaysTable(events', ReadSongData))
    /\ UNCHANGED <<log_files, song_files, rerun, prev_users>>

(* spark.stop() and the return of main *)
SparkStop ==
    /\ pc = "stop"
    /\ pc' = "done"
    /\ UNCHANGED <<log_files, song_files, store, written, events, error, rerun, prev_users>>

(* The engine or the storage fails in the read or the write of the current
   statement: the exception leaves main, nothing further is written *)
EngineFailure ==
    /\ pc \in Tables
    /\ pc' = "failed"
    /\ error' = "EngineFailure"
    /\ UNCHANGED <<log_files, song_files, store, written, events, rerun, prev_users>>

(* The job is run a second time, on the same input_data and output_data *)
Rerun ==
    /\ pc = "done"
    /\ ~rerun
    /\ rerun' = TRUE
    /\ pc' = "songs"
    /\ written' = <<>>
    /\ events' = <<>>
    /\ error' = "none"
    /\ UNCHANGED <<log_files, song_files, store, prev_users>>

(* The job is run a second time after the output root was emptied *)
RerunAfterClear ==
    /\ pc = "done"
    /\ ~rerun
    /\ rerun' = TRUE
    /\ pc' = "songs"
    /\ prev_users' = store["users"]
    /\ store' = [t \in Tables |-> NoTable]
    /\ written' = <<>>
    /\ events' = <<>>
    /\ error' = "none"
    /\ UNCHANGED <<log_files, song_files>>

Next ==
    \/ WriteSongs
    \/ WriteArtists
    \/ WriteUsers
    \/ WriteTime
    \/ WriteSongplays
    \/ SparkStop
    \/ EngineFailure
    \/ Rerun
    \/ RerunAfterClear

Spec == Init /\ [][Next]_vars

----------------------------------------------------------------------------
(* The properties *)

(* The surviving PlayEvents of the snapshot, read off the input itself *)
SurvivingEvents == {r \in log_files : r.page = "NextSong"}

EventsOfUser(u) == {r \in SurvivingEvents : CastInteger(r.userId) = u}

RowsOf(t) == store[t].rows

(* the current run has written table t *)
WroteTable(t) == \E k \in DOMAIN written : written[k] = t

IsRecordOf(row, r) ==
    /\ row.user_id = CastInteger(r.userId)
    /\ row.first_name = r.firstName
    /\ row.last_name = r.lastName
    /\ row.gender = r.gender
    /\ row.level = r.level

(* C1: once the users table is written, every user_id with a surviving
   PlayEvent has exactly one UserRecord, and its name, gender and level are
   those of a surviving event of that user with the maximum raw timestamp (of
   the event with the maximum timestamp, when only one has it). *)
UsersReflectLatestEvent ==
    store["users"].exists =>
        \A r \in SurvivingEvents :
            LET u == CastInteger(r.userId)
                rows == {k \in DOMAIN RowsOf("users") : RowsOf("users")[k].user_id = u}
            IN  /\ Cardinality(rows) = 1
                /\ \A k \in rows :
                      \E e \in EventsOfUser(u) :
                          /\ \A o \in EventsOfUser(u) : o.ts <= e.ts
                          /\ IsRecordOf(RowsOf("users")[k], e)

(* A user with an older free event and a newer paid event, and the users table
   written with the paid level *)
UsersReflectLatestEventWitness ==
    /\ store["users"].exists
    /\ \E a, b \in SurvivingEvents :
          /\ a.userId = "7" /\ b.userId = "7"
          /\ a.ts < b.ts
          /\ a.level = "free" /\ b.level = "paid"
          /\ \E k \in DOMAIN RowsOf("users") :
                /\ RowsOf("users")[k].user_id = Some(7)
                /\ RowsOf("users")[k].level = "paid"

(* C2: the songplays table has exactly one row for each surviving PlayEvent,
   however many catalog records the event matches. *)
OneFactPerPlayEvent ==
    store["songplays"].exists =>
        Len(RowsOf("songplays")) = Cardinality(SurvivingEvents)

(* C3: no two rows of the songplays table have the same songplay_id. *)
SongplayIdUnique ==
    store["songplays"].exists =>
        \A i, j \in DOMAIN RowsOf("songplays") :
            i # j => RowsOf("songplays")[i].songplay_id # RowsOf("songplays")[j].songplay_id

Earlier(a, b) ==
    \/ a.seconds < b.seconds
    \/ a.seconds = b.seconds /\ a.millis < b.millis

(* C4: the ids are assigned over the surviving PlayEvents sorted by raw
   timestamp ascending: an event earlier in that order has the strictly
   smaller songplay_id, every fact row carries the id of its event, and so a
   fact row with an earlier timestamp has the smaller id, whatever the split
   of the sorted events into partitions. *)
SongplayIdFollowsTimestampOrder ==
    WroteTable("songplays") =>
        /\ Len(events) = Cardinality(SurvivingEvents)
        /\ \A i, j \in DOMAIN events :
              i < j => /\ events[i].ts <= events[j].ts
                       /\ events[i].songplay_id < events[j].songplay_id
        /\ \A f \in Range(RowsOf("songplays")) :
              \E k \in DOMAIN events :
                  /\ events[k].songplay_id = f.songplay_id
                  /\ get_timestamp(events[k].ts) = f.start_time
        /\ \A f, g \in Range(RowsOf("songplays")) :
              Earlier(f.start_time, g.start_time) => f.songplay_id < g.songplay_id

(* Two events of different timestamps in different partitions: the ids have a
   gap *)
SongplayIdFollowsTimestampOrderWitness ==
    /\ WroteTable("songplays")
    /\ \E i, j \in DOMAIN events :
          /\ events[i].ts < events[j].ts
          /\ events[j].songplay_id > events[i].songplay_id + 1

(* C5: a fact row has a song_id only if a catalog record has the event's
   title and artist name and a duration less than 2 away from the event's
   length, and then the row carries that record's song_id and artist_id; an
   event that no catalog record matches (a difference of 2 or more included)
   has a fact row in which song_id and artist_id are both null. *)
SongIdOnlyOnMatch ==
    WroteTable("songplays") =>
        /\ \A f \in Range(RowsOf("songplays")) :
              /\ (f.song_id = NULL) <=> (f.artist_id = NULL)
              /\ f.song_id # NULL =>
                    \E k \in DOMAIN events : \E s \in song_files :
                        /\ events[k].songplay_id = f.songplay_id
                        /\ events[k].song = s.title
                        /\ events[k].artist = s.artist_name
                        /\ events[k].length - s.duration < 2
                        /\ s.duration - events[k].length < 2
                        /\ f.song_id = Some(s.song_id)
                        /\ f.artist_id = Some(s.artist_id)
        /\ \A k \in DOMAIN events :
              (\A s \in song_files :
                  \/ events[k].song # s.title
                  \/ events[k].artist # s.artist_name
                  \/ events[k].length - s.duration >= 2
                  \/ s.duration - events[k].length >= 2)
              => \E f \in Range(RowsOf("songplays")) :
                    /\ f.songplay_id = events[k].songplay_id
                    /\ f.song_id = NULL
                    /\ f.artist_id = NULL

(* An event whose length is exactly 2 away from the only catalog duration of
   its title: its row has no song_id; and an event that matches *)
SongIdOnlyOnMatchWitness ==
    /\ WroteTable("songplays")
    /\ \E k \in DOMAIN events : \E s \in song_files :
          /\ events[k].song = s.title
          /\ events[k].artist = s.artist_name
          /\ events[k].length - s.duration = 2
          /\ \E f \in Range(RowsOf("songplays")) :
                f.songplay_id = events[k].songplay_id /\ f.song_id = NULL
    /\ \E f \in Range(RowsOf("songplays")) : f.song_id # NULL

(* C6: the second run on the same snapshot and the same output root is never
   blocked by the tables the first run left there: no write of it raises
   because its path exists. *)
RerunOverwrites ==
    rerun /\ ~prev_users.exists => error # "AnalysisException"

(* C7 as stated: no run has failed with a non-empty proper subset of the five
   tables written. *)
AllTablesOrNone ==
    pc = "failed" => (written = <<>> \/ Range(written) = Tables)

(* C7 as amended: the tables a run has written are always the first ones of
   songs, artists, users, time, songplays, each of them in the store; a run
   that completes has written all five, a run that failed has written those
   that came before the failing operation and keeps them. *)
WrittenTablesArePrefix ==
    LET order == <<"songs", "artists", "users", "time", "songplays">>
    IN  /\ Len(written) <= 5
        /\ \A k \in DOMAIN written : written[k] = order[k] /\ store[written[k]].exists
        /\ pc = "done" => written = order
        /\ pc = "failed" => Len(written) < 5
        /\ pc \in Tables => pc = order[Len(written) + 1]

(* A run that failed after it wrote songs and artists *)
WrittenTablesArePrefixWitness ==
    /\ pc = "failed"
    /\ error = "EngineFailure"
    /\ written = <<"songs", "artists">>
    /\ ~store["users"].exists

(* C8: a log record whose userId does not cast to an integer leaves no
   UserRecord (none with a null user_id), no TimeDimension row and no
   SongPlayFact. *)
UncastableUserIdDropped ==
    LET castable == {r \in SurvivingEvents : CastInteger(r.userId) # NULL}
    IN  /\ store["users"].exists =>
              \A row \in Range(RowsOf("users")) : row.user_id # NULL
        /\ store["time"].exists =>
              Len(RowsOf("time")) = Cardinality(castable)
        /\ store["songplays"].exists =>
              \A f \in Range(RowsOf("songplays")) : f.user_id # NULL

(* C9: two runs over the same snapshot write the same UserRecords. *)
UsersSameAcrossRuns ==
    prev_users.exists /\ store["users"].exists =>
        Range(prev_users.rows) = Range(RowsOf("users"))

(* C10: every row of the users, time and songplays tables comes from a log
   record with page = 'NextSong': each UserRecord is the record of such an
   event, the time table has one row for each such event and no other, each
   fact row carries the user, level and timestamp of such an event and there
   are as many distinct songplay_ids as such events; a user without such an
   event is not in the users table. *)
OnlySongPlaysProduceRows ==
    /\ store["users"].exists =>
          \A row \in Range(RowsOf("users")) :
              \E r \in log_files : r.page = "NextSong" /\ IsRecordOf(row, r)
    /\ store["time"].exists =>
          /\ Len(RowsOf("time")) = Cardinality({r \in log_files : r.page = "NextSong"})
          /\ \A row \in Range(RowsOf("time")) :
                \E r \in log_files :
                    r.page = "NextSong" /\ row.start_time = get_timestamp(r.ts)
    /\ store["songplays"].exists =>
          /\ Cardinality({f.songplay_id : f \in Range(RowsOf("songplays"))})
                = Cardinality({r \in log_files : r.page = "NextSong"})
          /\ \A f \in Range(RowsOf("songplays")) :
                \E r \in log_files :
                    /\ r.page = "NextSong"
                    /\ f.user_id = CastInteger(r.userId)
                    /\ f.level = r.level
                    /\ f.start_time = get_timestamp(r.ts)

(* A snapshot with a song play of one user and a page view of another, later
   and alone for its user: the three tables are written *)
OnlySongPlaysProduceRowsWitness ==
    /\ store["users"].exists /\ store["time"].exists /\ store["songplays"].exists
    /\ \E v, r \in log_files :
          /\ v.page = "PageView" /\ r.page = "NextSong"
          /\ v.userId = "8" /\ r.userId = "7"
          /\ v.ts > r.ts
          /\ \A o \in log_files : o.userId = "8" => o.page # "NextSong"
    /\ \A row \in Range(RowsOf("users")) : row.user_id # Some(8)

====
